---- MODULE Spec2Model ----
(***************************************************************************)
(* hyperGRC: the loaders and the sort key of opencontrol.py, the Targeted    *)
(* Document Updater (opencontrol.py                                        *)
(* update_component_control, routes.py update_control) and the Control     *)
(* Resolver (routes.py get_contol), as state machines.                     *)
(*                                                                         *)
(* A YAML file is modelled by the document rtyaml.load returns for it (an  *)
(* order-preserving tree); strings that are taken apart by the code are    *)
(* sequences of one-character strings.                                     *)
(***************************************************************************)
EXTENDS Integers, Sequences, FiniteSets, TLC

(***************************************************************************)
(* Bounds of the model.                                                    *)
(***************************************************************************)
\* most entries of the "satisfies" list of a component.yaml
MaxEntries == 1
\* most narrative parts of a component.yaml, over all its entries
MaxParts == 2
\* most characters of an enumerated control id
MaxLen == 4
\* most characters of an enumerated catalog key
MaxKeyLen == 2
\* most characters of an enumerated narrative text of a form
MaxTextLen == 4
\* most standards directories a system manifest declares
MaxStandardsDirs == 2
\* most catalog files of a project, over all its standards directories
MaxCatalogFiles == 2
\* most components a system manifest declares
MaxComponents == 2
\* most characters of an enumerated argument of make_control_number_sort_key
MaxSortLen == 3
\* the largest number whose decimal form is put after a prefix
MaxSortNumber == 22

\* Python's None (an absent "key" of a narrative part, a return value)
None == "None"

\* the concurrent callers of update_component_control
Procs == {1, 2}

\* (standard_key, control_key) pairs of the entries of the files
DocRefs == { <<"S1", "AC-1">>, <<"S1", "AC-2">> }
\* (standard id, control id) pairs of the records passed in
RecRefs == DocRefs \cup { <<"S2", "AC-1">> }
\* keys of narrative parts; None is the absent key
PartKeys == {None, "a"}
\* the narrative text every part holds before any update
OldText == "t0"
\* the texts caller p can submit
NewTexts(p) == IF p = 1 THEN {"t1"} ELSE {"t1", "t2"}

VARIABLES
    file,        \* the component.yaml on disk: [kind, doc]
    pc,          \* per caller: position in update_component_control
    rec,         \* per caller: the controlimpl record passed in
    data,        \* per caller: the parsed document held in memory
    ret,         \* per caller: the outcome of the call
    hist,        \* history: what the file and the callers looked like at each caller's steps
    standard,      \* get_contol: the catalog, a mapping from control ids to entries
    control_id,    \* get_contol: the control id looked up
    control_parts, \* get_contol: the tokens of control_id
    loop_i,        \* get_contol: the loop index i
    test_id,       \* get_contol: the prefix tested last
    id_remainder,  \* get_contol: what follows that prefix
    result,        \* get_contol: the record returned
    rpc,           \* get_contol: position in the function
    cfiles,        \* update_control: the control files of the component, in glob order
    cfiles0,       \* update_control: history, the control files when the request came
    form,          \* update_control: request.form
    hfile,         \* update_control: index of the control file being scanned
    hdata,         \* update_control: the parsed document of that file
    hpc,           \* update_control: position in the handler
    response,      \* update_control: what the handler returned
    sort_in,       \* make_control_number_sort_key: the two arguments of two calls
    sort_keys,     \* make_control_number_sort_key: the keys returned so far
    sort_order,    \* how Python orders the two keys
    kpc,           \* position of the caller that builds two keys and compares them
    system_file,   \* the system manifest on disk: the document of opencontrol.yaml
    component_files, \* the declared components: [path, doc] of each component.yaml
    project,       \* what load_project_from_path returned
    raised, \* the exception load_project_from_path raised, or None
    component_id,  \* load_project_component: the id asked for; NoneStr when the caller iterates
    comp_i,        \* load_project_components: index of the next declared component
    yielded,       \* load_project_components: the components yielded so far
    component,     \* load_project_component: the component returned
    ppc,           \* position in the project loaders
    standards_system, \* load_project_standards: the system manifest and the standards directories on disk
    std_i,         \* load_project_standards: index of the standards directory being read
    std_j,         \* load_project_standards: index of the next catalog file of that directory
    std_yielded,   \* load_project_standards: the (standard_key, standard) pairs yielded so far
    std_raised,    \* load_project_standards: the exception raised, or None
    spc,           \* load_project_standards: position in the generator
    standards,     \* load_project_component_controls: the standards passed in
    ctl_i,         \* load_project_component_controls: index of the satisfies entry being read
    ctl_j,         \* load_project_component_controls: index of its next narrative part
    control_metadata, \* load_project_component_controls: the metadata of that entry
    ctl_yielded,   \* load_project_component_controls: the records yielded so far
    ctl_origin,    \* history: the (entry, part) position each yielded record was read from
    ctl_raised,    \* load_project_component_controls: the exception raised, or None
    updated_with,  \* history: index of the yielded record passed to update_component_control, or 0
    cpc            \* load_project_component_controls: position in the generator

uvars == <<file, pc, rec, data, ret, hist>>
rvars == <<standard, control_id, control_parts, loop_i, test_id, id_remainder, result, rpc>>
hvars == <<cfiles, cfiles0, form, hfile, hdata, hpc, response>>
kvars == <<sort_in, sort_keys, sort_order, kpc>>
pvars == <<system_file, component_files, project, raised, component_id, comp_i,
           yielded, component, ppc>>
svars == <<standards_system, std_i, std_j, std_yielded, std_raised, spc>>
cvars == <<standards, ctl_i, ctl_j, control_metadata, ctl_yielded, ctl_origin, ctl_raised,
           updated_with, cpc>>
\* the state of the loaders
xvars == <<kvars, pvars, svars, cvars>>
vars == <<uvars, rvars, hvars, xvars>>

(***************************************************************************)
(* Documents                                                               *)
(***************************************************************************)
SeqsUpTo(S, n) == UNION { [1..k -> S] : k \in 0..n }

Longest(S) == CHOOSE k \in S : \A m \in S : m <= k

Parts == [key : PartKeys, text : {OldText}]

\* a satisfies entry; has_narrative = FALSE is an entry with no "narrative" field
Entries ==
    { [standard_key |-> cr[1], control_key |-> cr[2], name |-> "Name",
       has_narrative |-> TRUE, narrative |-> n] :
          cr \in DocRefs, n \in SeqsUpTo(Parts, MaxParts) }
    \cup
    { [standard_key |-> cr[1], control_key |-> cr[2], name |-> "Name",
       has_narrative |-> FALSE, narrative |-> << >>] : cr \in DocRefs }

RECURSIVE CountParts(_)
CountParts(satisfies) ==
    IF satisfies = << >> THEN 0
    ELSE Len(Head(satisfies).narrative) + CountParts(Tail(satisfies))

\* a component.yaml: schema_version, name and the satisfies list
Docs == { [schema_version |-> "3.0.0", name |-> "Component", satisfies |-> s] :
             s \in { x \in SeqsUpTo(Entries, MaxEntries) : CountParts(x) <= MaxParts } }

NoDoc == [schema_version |-> None, name |-> None, satisfies |-> << >>]

FileOf(d) == [kind |-> "doc", doc |-> d]
EmptyFile == [kind |-> "empty", doc |-> NoDoc]
GarbledFile == [kind |-> "garbled", doc |-> NoDoc]

\* control.get("narrative", [])
GetNarrative(control) == IF control.has_narrative THEN control.narrative ELSE << >>

\* the controlimpl records a caller can pass
Records(p) ==
    { [standard_id |-> cr[1], control_id |-> cr[2], control_part |-> k,
       narrative |-> t] : cr \in RecRefs, k \in PartKeys, t \in NewTexts(p) }

NoRec == [standard_id |-> None, control_id |-> None, control_part |-> None,
          narrative |-> None]

(***************************************************************************)
(* update_component_control, lines 233-241: the in-memory patch.  Every    *)
(* entry with the record's (standard_key, control_key) is visited, and in  *)
(* it every narrative part with the record's key is assigned the text; the *)
(* loops have no break.                                                    *)
(***************************************************************************)
PartMatches(narrative_part, controlimpl) ==
    narrative_part.key = controlimpl.control_part

ControlMatches(control, controlimpl) ==
    /\ control.standard_key = controlimpl.standard_id
    /\ control.control_key = controlimpl.control_id

\* mutant of PatchNarrative: a matching part gets the text added after it as a
\* new part instead of having its text assigned
PatchNarrativeAppend(narrative, controlimpl) ==
    IF \E j \in 1..Len(narrative) : PartMatches(narrative[j], controlimpl)
    THEN Append(narrative, [key |-> controlimpl.control_part,
                            text |-> controlimpl.narrative])
    ELSE narrative

PatchNarrative(narrative, controlimpl) ==
    [j \in 1..Len(narrative) |->
        IF PartMatches(narrative[j], controlimpl)
        THEN [narrative[j] EXCEPT !.text = controlimpl.narrative]
        ELSE narrative[j]]

PatchControl(control, controlimpl) ==
    IF ControlMatches(control, controlimpl) /\ control.has_narrative
    THEN [control EXCEPT !.narrative = PatchNarrative(@, controlimpl)]
    ELSE control

UpdateDoc(d, controlimpl) ==
    [d EXCEPT !.satisfies =
        [i \in 1..Len(d.satisfies) |-> PatchControl(d.satisfies[i], controlimpl)]]

\* the (entry, part) positions of the narrative parts of d
Fragments(d) ==
    UNION { { <<i, j>> : j \in 1..Len(GetNarrative(d.satisfies[i])) } :
              i \in 1..Len(d.satisfies) }

\* the positions of d the record's triple matches
Targets(d, controlimpl) ==
    { f \in Fragments(d) :
        /\ ControlMatches(d.satisfies[f[1]], controlimpl)
        /\ PartMatches(d.satisfies[f[1]].narrative[f[2]], controlimpl) }

(***************************************************************************)
(* get_contol (routes.py 167-189).  Strings are sequences of characters.   *)
(***************************************************************************)
\* the characters of the control ids and catalog keys that are enumerated
Alphabet == {"A", "-", " "}
\* \s of the regular expression
SpaceChars == {" "}
\* \w of the regular expression, as far as the model's strings use it
WordChars == {"A", "C", "H", "Z", "2", "9", "_"}

\* None where a string is expected
NoneStr == <<"None">>

NoResult == [id |-> NoneStr, name |-> NoneStr, description |-> NoneStr]

CharClass(c) ==
    IF c \in SpaceChars THEN "space" ELSE IF c \in WordChars THEN "word" ELSE "punct"

\* the length of the longest prefix of s whose characters have a class in cls
LeadLen(s, cls) ==
    CHOOSE n \in 0..Len(s) :
        /\ \A k \in 1..n : CharClass(s[k]) \in cls
        /\ n = Len(s) \/ CharClass(s[n + 1]) \notin cls

\* mutant of ReSplit: the separator is one run of non-word characters, (\W+)
RECURSIVE ReSplitNonWord(_)
ReSplitNonWord(s) ==
    LET t == LeadLen(s, {"word"})
        rest == SubSeq(s, t + 1, Len(s))
    IN  IF rest = << >> THEN << SubSeq(s, 1, t) >>
        ELSE LET n == LeadLen(rest, {"space", "punct"})
             IN  << SubSeq(s, 1, t), SubSeq(rest, 1, n) >>
                    \o ReSplitNonWord(SubSeq(rest, n + 1, Len(rest)))

\* re.split(r"(\s+|[^\w\s]+)", s): the text before each separator, the
\* separator (a run of whitespace or a run of punctuation), ..., the text
\* after the last separator; a text can be empty
RECURSIVE ReSplit(_)
ReSplit(s) ==
    LET t == LeadLen(s, {"word"})
        rest == SubSeq(s, t + 1, Len(s))
    IN  IF rest = << >> THEN << SubSeq(s, 1, t) >>
        ELSE LET n == LeadLen(rest, {CharClass(rest[1])})
             IN  << SubSeq(s, 1, t), SubSeq(rest, 1, n) >>
                    \o ReSplit(SubSeq(rest, n + 1, Len(rest)))

\* "".join(parts)
RECURSIVE Join(_)
Join(parts) == IF parts = << >> THEN << >> ELSE Head(parts) \o Join(Tail(parts))

\* the strings over Alphabet of length at most n
Strings(n) == SeqsUpTo(Alphabet, n)

Str_AC2 == <<"A", "C", "-", "2">>
Str_AC2_H == <<"A", "C", "-", "2", " ", "(", "H", ")">>
Str_AC2H == <<"A", "C", "-", "2", "(", "H", ")">>
Str_ZZ99 == <<"Z", "Z", "-", "9", "9">>
Str_AccountManagement ==
    <<"A", "c", "c", "o", "u", "n", "t", " ", "M", "a", "n", "a", "g", "e", "m", "e", "n", "t">>
Str_See == <<"S", "e", "e", " ">>

\* the catalog with the keys K; an entry's name and description tell its key
CatalogOf(K) == [k \in K |-> [name |-> <<"n", ":">> \o k, description |-> <<"d", ":">> \o k]]

\* the catalog of the examples: AC-2, Account Management
ExampleCatalog ==
    [k \in {Str_AC2} |-> [name |-> Str_AccountManagement,
                          description |-> <<"T", "e", "x", "t">>]]

\* the keys of the enumerated catalogs: control ids, never the empty string
CatalogKeys == Strings(MaxKeyLen) \ { << >> }

Catalogs ==
    { CatalogOf(K) : K \in { {a, b} : a, b \in CatalogKeys } \cup { {} } }
    \cup { ExampleCatalog }

ControlIds == Strings(MaxLen) \cup {Str_AC2, Str_AC2_H, Str_AC2H, Str_ZZ99}

(***************************************************************************)
(* update_control (routes.py 618-664): the documents and the form          *)
(***************************************************************************)
\* the characters of the enumerated form texts
TextAlphabet == {"x", " ", "\n"}
\* \s, what strip() removes
TextSpace == {" ", "\n"}

RECURSIVE LStrip(_)
LStrip(s) == IF s # << >> /\ Head(s) \in TextSpace THEN LStrip(Tail(s)) ELSE s

RECURSIVE RStrip(_)
RStrip(s) ==
    IF s # << >> /\ s[Len(s)] \in TextSpace THEN RStrip(SubSeq(s, 1, Len(s) - 1)) ELSE s

\* text.strip()
Strip(s) == RStrip(LStrip(s))

\* the length of the whitespace run s begins with
SpaceRun(s) ==
    CHOOSE n \in 0..Len(s) :
        /\ \A k \in 1..n : s[k] \in TextSpace
        /\ n = Len(s) \/ s[n + 1] \notin TextSpace

\* re.sub(r"\s+\n", "\n", s): in each whitespace run the longest match is
\* the run up to its last line break that has whitespace before it (a line
\* break is whitespace too); the match becomes one line break
RECURSIVE SubSpaceNewline(_)
SubSpaceNewline(s) ==
    IF s = << >> THEN << >>
    ELSE IF Head(s) \notin TextSpace THEN << Head(s) >> \o SubSpaceNewline(Tail(s))
    ELSE LET n == SpaceRun(s)
             J == { j \in 2..n : s[j] = "\n" }
             rest == SubSpaceNewline(SubSeq(s, n + 1, Len(s)))
         IN  IF J = {} THEN SubSeq(s, 1, n) \o rest
             ELSE << "\n" >> \o SubSeq(s, Longest(J) + 1, n) \o rest

\* lines 642-649
clean_text(text) ==
    LET t == SubSpaceNewline(Strip(text))
    IN  IF t = << >> THEN NoneStr ELSE t

CtlKeys == {"AC-1", "AC-2"}
\* control_key_part of an entry; None is the absent (or empty) part
CtlParts == {None, "a"}

\* an entry of "satisfies" in a control file, fields as they were written before
CtlEntries ==
    { [control_key |-> ck, control_key_part |-> kp, summary |-> <<"o">>,
       narrative |-> <<"o">>, implementation_status |-> <<"o">>] :
         ck \in CtlKeys, kp \in CtlParts }

CtlDocs == { [satisfies |-> x] : x \in SeqsUpTo(CtlEntries, MaxEntries) }

NoCtlDoc == [satisfies |-> << >>]

\* the control files iterate_control_files yields: one or two
CtlFileLists ==
    { << FileOf(d) >> : d \in CtlDocs } \cup { << FileOf(d), FileOf(e) >> : d, e \in CtlDocs }

\* request.form; control_part = None is a form without that field
Forms ==
    { [control_key |-> ck, control_part |-> kp, summary |-> <<"s", " ">>,
       narrative |-> t, status |-> << >>] :
         ck \in CtlKeys, kp \in CtlParts, t \in SeqsUpTo(TextAlphabet, MaxTextLen) }

NoForm == [control_key |-> None, control_part |-> None, summary |-> << >>,
           narrative |-> << >>, status |-> << >>]

\* lines 638-639: (controldata.get("control_key_part") or "") and
\* request.form.get("control_part", "")
EntryMatchesForm(controldata, frm) ==
    /\ controldata.control_key = frm.control_key
    /\ (IF controldata.control_key_part = None THEN "" ELSE controldata.control_key_part)
         = (IF frm.control_part = None THEN "" ELSE frm.control_part)

\* lines 651-653
PatchEntry(controldata, frm) ==
    [controldata EXCEPT !.summary = clean_text(frm.summary),
                        !.narrative = clean_text(frm.narrative),
                        !.implementation_status = clean_text(frm.status)]

\* the entries of d the form matches
FormMatches(d, frm) ==
    { k \in 1..Len(d.satisfies) : EntryMatchesForm(d.satisfies[k], frm) }

First(S) == CHOOSE k \in S : \A m \in S : k <= m

(***************************************************************************)
(* make_control_number_sort_key and intify (opencontrol.py 89-96).  An     *)
(* element of a key is an integer or a string: [kind, val].                *)
(***************************************************************************)
\* the characters of the enumerated arguments
SortAlphabet == {"A", "0", "1", "2"}
\* \d
DigitChars == {"0", "1", "2", "3", "4", "5", "6", "7", "8", "9"}

DigitVal(c) ==
    CASE c = "0" -> 0 [] c = "1" -> 1 [] c = "2" -> 2 [] c = "3" -> 3 [] c = "4" -> 4
      [] c = "5" -> 5 [] c = "6" -> 6 [] c = "7" -> 7 [] c = "8" -> 8 [] c = "9" -> 9

\* int(s) of a string of digits
RECURSIVE IntOf(_)
IntOf(s) ==
    IF s = << >> THEN 0 ELSE 10 * IntOf(SubSeq(s, 1, Len(s) - 1)) + DigitVal(s[Len(s)])

\* the length of the run s begins with of digits (d = TRUE) or of other characters
LeadRun(s, d) ==
    CHOOSE n \in 0..Len(s) :
        /\ \A k \in 1..n : (s[k] \in DigitChars) = d
        /\ n = Len(s) \/ (s[n + 1] \in DigitChars) # d

\* mutant of SplitDigits: the runs of digits and of other characters in
\* turn, with no empty text before, between or after them
RECURSIVE SplitRuns(_)
SplitRuns(s) ==
    IF s = << >> THEN << >>
    ELSE LET n == LeadRun(s, s[1] \in DigitChars)
         IN  << SubSeq(s, 1, n) >> \o SplitRuns(SubSeq(s, n + 1, Len(s)))

\* re.split(r"(\d+)", s): the text before each run of digits, the run, ...,
\* the text after the last run; a text can be empty
RECURSIVE SplitDigits(_)
SplitDigits(s) ==
    LET t == LeadRun(s, FALSE)
        rest == SubSeq(s, t + 1, Len(s))
    IN  IF rest = << >> THEN << SubSeq(s, 1, t) >>
        ELSE LET n == LeadRun(rest, TRUE)
             IN  << SubSeq(s, 1, t), SubSeq(rest, 1, n) >>
                    \o SplitDigits(SubSeq(rest, n + 1, Len(rest)))

\* mutant of intify: the part is returned as it is, never converted
intifyNever(part) == [kind |-> "str", val |-> part]

\* lines 89-93: int(s), or s itself when int raises ValueError (the empty
\* string and every part that is not a run of digits)
intify(part) ==
    IF part # << >> /\ \A k \in 1..Len(part) : part[k] \in DigitChars
    THEN [kind |-> "int", val |-> IntOf(part)]
    ELSE [kind |-> "str", val |-> part]

\* lines 94-96; arg = NoneStr is the argument None: s or ""
make_control_number_sort_key(arg) ==
    LET parts == SplitDigits(IF arg = NoneStr THEN << >> ELSE arg)
    IN  [k \in 1..Len(parts) |-> intify(parts[k])]

\* the code point of a character
Ord(c) ==
    CASE c = "-" -> 45 [] c \in DigitChars -> 48 + DigitVal(c) [] c = "A" -> 65
      [] c = "C" -> 67 [] OTHER -> 120

IntOrder(m, n) == IF m < n THEN "lt" ELSE IF m > n THEN "gt" ELSE "eq"

\* Python's ordering of two strings: by their first difference, a proper
\* prefix first
RECURSIVE StrOrder(_, _)
StrOrder(a, b) ==
    IF a = << >> /\ b = << >> THEN "eq"
    ELSE IF a = << >> THEN "lt"
    ELSE IF b = << >> THEN "gt"
    ELSE LET o == IntOrder(Ord(Head(a)), Ord(Head(b)))
         IN  IF o = "eq" THEN StrOrder(Tail(a), Tail(b)) ELSE o

\* two elements of a key: an integer and a string are not ordered, the
\* comparison raises TypeError
ElemOrder(a, b) ==
    IF a.kind # b.kind THEN "TypeError"
    ELSE IF a.kind = "int" THEN IntOrder(a.val, b.val)
    ELSE StrOrder(a.val, b.val)

\* Python's ordering of two keys as tuples: by their first difference, a
\* proper prefix first
RECURSIVE KeyOrder(_, _)
KeyOrder(k1, k2) ==
    IF k1 = << >> /\ k2 = << >> THEN "eq"
    ELSE IF k1 = << >> THEN "lt"
    ELSE IF k2 = << >> THEN "gt"
    ELSE LET o == ElemOrder(Head(k1), Head(k2))
         IN  IF o = "eq" THEN KeyOrder(Tail(k1), Tail(k2)) ELSE o

\* the enumerated arguments: strings and None
SortInputs == SeqsUpTo(SortAlphabet, MaxSortLen) \cup { NoneStr }

(***************************************************************************)
(* Strings of the loaders: paths, names, identifiers (opencontrol.py 6-87) *)
(***************************************************************************)
\* the characters of the loaders' strings, in the order of their code points
CharTable ==
    << " ", "%", "+", "-", ".", "/", "0", "1", "2", "3", "4", "5", "6", "7", "8", "9",
       "A", "B", "C", "D", "E", "F", "G", "H", "I", "J", "K", "L", "M", "N", "O", "P",
       "Q", "R", "S", "T", "U", "V", "W", "X", "Y", "Z", "_",
       "a", "b", "c", "d", "e", "f", "g", "h", "i", "j", "k", "l", "m", "n", "o", "p",
       "q", "r", "s", "t", "u", "v", "w", "x", "y", "z", "~" >>

CharCode(c) == CHOOSE k \in 1..Len(CharTable) : CharTable[k] = c

HexDigits ==
    << "0", "1", "2", "3", "4", "5", "6", "7", "8", "9", "a", "b", "c", "d", "e", "f" >>

\* the digest of s as a number: a stand-in for SHA-256 that, like it, is a
\* function of every character of s; only the first 6 hex digits are kept
RECURSIVE Digest(_)
Digest(s) ==
    IF s = << >> THEN 14935
    ELSE (Digest(SubSeq(s, 1, Len(s) - 1)) * 31 + CharCode(s[Len(s)])) % 16777216

\* the n low hex digits of v, most significant first
RECURSIVE HexOf(_, _)
HexOf(v, n) ==
    IF n = 0 THEN << >> ELSE HexOf(v \div 16, n - 1) \o << HexDigits[(v % 16) + 1] >>

\* lines 6-10: hasher.hexdigest()[:6]
short_hash(str) == HexOf(Digest(str), 6)

\* s[0:12]
First12(str) == SubSeq(str, 1, IF Len(str) < 12 THEN Len(str) ELSE 12)

\* os.path.join(a, b) of a relative b
PathJoin(a, b) == IF a = << >> \/ a[Len(a)] = "/" THEN a \o b ELSE a \o <<"/">> \o b

\* os.path.normpath, for paths with no "." or ".." segment: trailing and
\* doubled separators go
RECURSIVE NormPath(_)
NormPath(path) ==
    IF Len(path) > 1 /\ path[Len(path)] = "/" THEN NormPath(SubSeq(path, 1, Len(path) - 1))
    ELSE IF \E k \in 1..(Len(path) - 1) : path[k] = "/" /\ path[k + 1] = "/"
    THEN LET k == CHOOSE j \in 1..(Len(path) - 1) : path[j] = "/" /\ path[j + 1] = "/"
         IN  NormPath(SubSeq(path, 1, k) \o SubSeq(path, k + 2, Len(path)))
    ELSE path

\* os.path.basename: what follows the last separator
BaseName(path) ==
    LET S == { k \in 1..Len(path) : path[k] = "/" }
    IN  IF S = {} THEN path ELSE SubSeq(path, Longest(S) + 1, Len(path))

\* os.path.splitext(name)[0]: name up to its last dot, unless that dot is
\* among the leading dots of name
SplitExtRoot(name) ==
    LET D == { k \in 1..Len(name) : name[k] = "." }
    IN  IF D = {} \/ \A k \in 1..(Longest(D) - 1) : name[k] = "."
        THEN name
        ELSE SubSeq(name, 1, Longest(D) - 1)

\* urllib.parse.quote_plus: letters, digits and _.-~ stay, a space becomes
\* "+", every other character its %XX escape
QuoteChar(c) ==
    CASE c = " " -> <<"+">>
      [] c = "/" -> <<"%", "2", "F">>
      [] c = "%" -> <<"%", "2", "5">>
      [] c = "+" -> <<"%", "2", "B">>
      [] OTHER -> << c >>

RECURSIVE quote_plus(_)
quote_plus(str) == IF str = << >> THEN << >> ELSE QuoteChar(Head(str)) \o quote_plus(Tail(str))

Str_NoOrganization ==
    <<"N", "o", " ", "O", "r", "g", "a", "n", "i", "z", "a", "t", "i", "o", "n">>
Str_opencontrol_yaml ==
    <<"o", "p", "e", "n", "c", "o", "n", "t", "r", "o", "l", ".", "y", "a", "m", "l">>
Str_component_yaml ==
    <<"c", "o", "m", "p", "o", "n", "e", "n", "t", ".", "y", "a", "m", "l">>
Str_organizations == <<"/", "o", "r", "g", "a", "n", "i", "z", "a", "t", "i", "o", "n", "s", "/">>
Str_projects == <<"/", "p", "r", "o", "j", "e", "c", "t", "s", "/">>
Str_components == <<"/", "c", "o", "m", "p", "o", "n", "e", "n", "t", "s", "/">>

(***************************************************************************)
(* The files of a project (opencontrol.py 12-87)                           *)
(***************************************************************************)
\* the directory of the project
ProjectDir == <<"s", "y", "s", "1">>

\* schema_version of a system manifest; None is a manifest without the field
SystemSchemas == {None, "0.9.0", "1.0.0"}
\* schema_version of a component manifest
ComponentSchemas == {None, "2.0.0", "3.0.0"}

\* "name" of a manifest; NoneStr is a manifest without the field
ManifestNames ==
    { NoneStr, <<"A", "p", "p", "1">>, <<"M", "y", " ", "A", "p", "p">>,
      <<"A", "C", "M", "E", "-", "s", "y", "s", "t", "e", "m", "-", "0", "1">> }

\* metadata.organization of a system manifest: absent, with a name only, with
\* a name and an abbreviation
Organizations ==
    { [name |-> NoneStr, abbreviation |-> NoneStr],
      [name |-> <<"A", "c", "m", "e">>, abbreviation |-> NoneStr],
      [name |-> <<"A", "c", "m", "e">>, abbreviation |-> <<"A", "/", "C">>] }

SystemFiles ==
    [schema_version : SystemSchemas, name : ManifestNames \ { <<"A", "p", "p", "1">> },
     organization : Organizations]

NoSystemFile ==
    [schema_version |-> None, name |-> NoneStr,
     organization |-> [name |-> NoneStr, abbreviation |-> NoneStr]]

\* the component paths a system manifest can declare
ComponentPaths == { <<"c", "1">>, <<"l", "i", "b", "/", "c", "2", "/">> }

\* a declared component: its path and the document of its component.yaml
ComponentFiles ==
    { [path |-> cp, doc |-> [schema_version |-> v, name |-> n]] :
        cp \in ComponentPaths, v \in ComponentSchemas \ {None},
        n \in { NoneStr, <<"A", "p", "p", "1">> } }
    \cup { [path |-> cp, doc |-> [schema_version |-> None, name |-> NoneStr]] :
             cp \in ComponentPaths }

\* the "components" lists: declared paths are distinct
ComponentLists ==
    { l \in SeqsUpTo(ComponentFiles, MaxComponents) :
        \A j, k \in 1..Len(l) : j # k => l[j].path # l[k].path }

NoProject ==
    [id |-> NoneStr,
     organization |-> [id |-> NoneStr, name |-> NoneStr, abbreviation |-> NoneStr],
     title |-> NoneStr, path |-> NoneStr, url |-> NoneStr]

NoComponent == [id |-> NoneStr, path |-> NoneStr, name |-> NoneStr, url |-> NoneStr]

\* mutant of SchemaIs: every schema_version is accepted
SchemaIsAny(doc, version) == TRUE

\* lines 20, 59, 66: opencontrol.get("schema_version") == version
SchemaIs(doc, version) == doc.schema_version = version

\* lines 24-49: the record load_project_from_path returns
ProjectOf(project_dir, opencontrol) ==
    LET fn == PathJoin(project_dir, Str_opencontrol_yaml)
        name == IF opencontrol.name # NoneStr THEN opencontrol.name
                ELSE SplitExtRoot(BaseName(NormPath(project_dir)))
        organization_name ==
            IF opencontrol.organization.name # NoneStr THEN opencontrol.organization.name
            ELSE Str_NoOrganization
        organization_abbrev ==
            IF opencontrol.organization.abbreviation # NoneStr
            THEN opencontrol.organization.abbreviation
            ELSE organization_name
        organization_id ==
            First12(organization_abbrev) \o <<"-">> \o short_hash(organization_name)
        project_id == First12(name) \o <<"-">> \o short_hash(fn)
    IN  [id |-> project_id,
         organization |-> [id |-> organization_id, name |-> organization_name,
                           abbreviation |-> organization_abbrev],
         title |-> name,
         path |-> project_dir,
         url |-> Str_organizations \o quote_plus(organization_id)
                   \o Str_projects \o quote_plus(project_id)]

\* lines 69-81: the record load_project_components yields for a component
ComponentOf(proj, cf) ==
    LET name == IF cf.doc.name # NoneStr THEN cf.doc.name
                ELSE SplitExtRoot(BaseName(NormPath(cf.path)))
        cid == First12(name) \o <<"-">> \o short_hash(cf.path)
    IN  [id |-> cid,
         path |-> PathJoin(proj.path, cf.path),
         name |-> name,
         url |-> proj.url \o Str_components \o quote_plus(cid)]

\* the ids a caller of load_project_component asks for: NoneStr is a caller of
\* load_project_components
WantedIds(l) ==
    { NoneStr, <<"n", "o", "-", "0">> }
    \cup { ComponentOf(NoProject, l[k]).id : k \in 1..Len(l) }

(***************************************************************************)
(* The standards of a project (opencontrol.py 98-155)                      *)
(***************************************************************************)
Str_name == <<"n", "a", "m", "e">>
Str_AC == <<"A", "C">>
Str_AC1 == <<"A", "C", "-", "1">>

\* a value of a catalog file that is a mapping; type = None is an entry
\* without "type"
CatalogEntry(type) ==
    [isdict |-> TRUE, type |-> type, name |-> "Name", family |-> Str_AC,
     description |-> "Text"]

\* the scalar value of the top-level key "name"
ScalarName ==
    [isdict |-> FALSE, type |-> None, name |-> "NIST", family |-> NoneStr,
     description |-> None]

\* the parsed catalog files: the top-level "name", then no entry, a family
\* and a control, or an entry whose type is another word
CatalogDocs ==
    { [k \in {Str_name} |-> ScalarName],
      [k \in {Str_name, Str_AC, Str_AC1} |->
          IF k = Str_name THEN ScalarName
          ELSE IF k = Str_AC THEN CatalogEntry("family") ELSE CatalogEntry(None)],
      [k \in {Str_name, Str_AC, Str_AC1} |->
          IF k = Str_name THEN ScalarName
          ELSE IF k = Str_AC THEN CatalogEntry("family") ELSE CatalogEntry("control")] }

\* the names of catalog files a standards directory lists
CatalogFileNames ==
    { <<"n", "i", "s", "t", ".", "y", "a", "m", "l">>,
      <<"n", "i", "s", "t", ".", "y", "m", "l">>,
      <<"h", "i", "p", "a", "a", ".", "y", "a", "m", "l">> }

CatalogFiles == [fn : CatalogFileNames, doc : CatalogDocs]

\* the standards directories of the system manifest
StandardsDirNames == { <<"s", "t", "d", "1">>, <<"s", "t", "d", "2">> }

\* a standards directory: its name, the schema_version of its
\* opencontrol.yaml and the catalog files that manifest lists, each once
StandardsDirs ==
    [dir : StandardsDirNames, schema_version : {None, "1.0.0"},
     standards : { l \in SeqsUpTo(CatalogFiles, MaxCatalogFiles) :
                     \A j, k \in 1..Len(l) : j # k => l[j].fn # l[k].fn }]

RECURSIVE CountCatalogFiles(_)
CountCatalogFiles(dirs) ==
    IF dirs = << >> THEN 0 ELSE Len(Head(dirs).standards) + CountCatalogFiles(Tail(dirs))

\* the system manifests: schema_version and the declared standards
\* directories, each declared once
StandardsSystems ==
    { [schema_version |-> v, standards |-> l] :
        v \in {"0.9.0", "1.0.0"},
        l \in { x \in SeqsUpTo(StandardsDirs, MaxStandardsDirs) :
                  /\ CountCatalogFiles(x) <= MaxCatalogFiles
                  /\ \A j, k \in 1..Len(x) : j # k => x[j].dir # x[k].dir } }

\* lines 130-142: the controls of a standard
ControlsOf(standard_key, standard_opencontrol) ==
    LET K == { k \in DOMAIN standard_opencontrol :
                 /\ standard_opencontrol[k].isdict
                 /\ standard_opencontrol[k].type = None }
    IN  [control_number \in K |->
            [id |-> control_number,
             sort_key |-> << standard_key, make_control_number_sort_key(control_number) >>,
             number |-> control_number,
             name |-> standard_opencontrol[control_number].name,
             family |-> standard_opencontrol[control_number].family,
             description |-> standard_opencontrol[control_number].description]]

\* lines 143-153: the families of a standard
FamiliesOf(standard_opencontrol) ==
    LET K == { k \in DOMAIN standard_opencontrol :
                 /\ standard_opencontrol[k].isdict
                 /\ standard_opencontrol[k].type = "family" }
    IN  [family_id \in K |->
            [id |-> family_id, sort_key |-> family_id, number |-> family_id,
             name |-> standard_opencontrol[family_id].name]]

\* line 119: the key of a catalog file
StandardKeyOf(project_dir, standards_dir, standard_fn) ==
    SplitExtRoot(BaseName(NormPath(PathJoin(PathJoin(project_dir, standards_dir), standard_fn))))

\* lines 127-154
StandardOf(standard_key, standard_opencontrol) ==
    [id |-> standard_key,
     name |-> standard_opencontrol[Str_name].name,
     controls |-> ControlsOf(standard_key, standard_opencontrol),
     families |-> FamiliesOf(standard_opencontrol)]

(***************************************************************************)
(* The controls of a component (opencontrol.py 157-223)                    *)
(***************************************************************************)
Str_nist == <<"n", "i", "s", "t">>
Str_controls == <<"/", "c", "o", "n", "t", "r", "o", "l", "s", "/">>

\* the component passed in: the record load_project_components yields for
\* the component c1 of a project
TheComponent ==
    ComponentOf(ProjectOf(ProjectDir,
                          [schema_version |-> "1.0.0", name |-> NoneStr,
                           organization |-> [name |-> <<"A", "c", "m", "e">>,
                                             abbreviation |-> NoneStr]]),
                [path |-> <<"c", "1">>, doc |-> [schema_version |-> "3.0.0", name |-> NoneStr]])

\* line 162: the path of the component.yaml of the component; the variable
\* "file" is the file at this path
ComponentYaml == PathJoin(TheComponent.path, Str_component_yaml)

\* keys of the narrative parts of the loaded files; NoneStr is a part without key
LoadedPartKeys == { NoneStr, <<"a">>, <<"b">> }

LoadedParts == [key : LoadedPartKeys, text : {OldText}]

\* the satisfies entries of the loaded files: has_name = FALSE is an entry
\* without "name", has_narrative = FALSE one without "narrative"
LoadedEntries ==
    { [standard_key |-> sk, control_key |-> ck, has_name |-> hn, name |-> "Entry",
       has_narrative |-> TRUE, narrative |-> n] :
          sk \in { Str_nist, <<"x">> }, ck \in { Str_AC1, Str_AC2 }, hn \in BOOLEAN,
          n \in SeqsUpTo(LoadedParts, MaxParts) }
    \cup
    { [standard_key |-> sk, control_key |-> ck, has_name |-> hn, name |-> "Entry",
       has_narrative |-> FALSE, narrative |-> << >>] :
          sk \in { Str_nist, <<"x">> }, ck \in { Str_AC1, Str_AC2 }, hn \in BOOLEAN }

\* the component.yaml files that are loaded
LoadedDocs ==
    { [schema_version |-> v, name |-> "Component", satisfies |-> x] :
        v \in { "3.0.0", "2.0.0" },
        x \in { y \in SeqsUpTo(LoadedEntries, MaxEntries) : CountParts(y) <= MaxParts } }

\* the standards mappings passed in: empty, or the standard "nist" of a catalog
LoadedStandards ==
    { << >> } \cup { [k \in {Str_nist} |-> StandardOf(Str_nist, d)] : d \in CatalogDocs }

\* str.split("-")[0]
BeforeDash(str) ==
    LET D == { k \in 1..Len(str) : str[k] = "-" }
    IN  IF D = {} THEN str ELSE SubSeq(str, 1, First(D) - 1)

NoMetadata ==
    [standard |-> [id |-> NoneStr, name |-> NoneStr],
     family |-> [abbrev |-> NoneStr, name |-> NoneStr, sort_key |-> NoneStr],
     control |-> [id |-> NoneStr],
     source_file |-> NoneStr]

\* lines 175-198: the metadata of an entry from the component file alone;
\* "family" and "description" of the control are not set there
BaseMetadata(comp, fn, control) ==
    [standard |-> [id |-> control.standard_key, name |-> control.standard_key],
     family |-> [abbrev |-> BeforeDash(control.control_key),
                 name |-> BeforeDash(control.control_key),
                 sort_key |-> BeforeDash(control.control_key)],
     control |-> [id |-> control.control_key,
                  sort_key |-> << control.standard_key,
                                  make_control_number_sort_key(control.control_key) >>,
                  number |-> control.control_key,
                  name |-> control.name,
                  url |-> comp.url \o Str_controls \o quote_plus(control.standard_key)
                            \o <<"/">> \o quote_plus(control.control_key)],
     source_file |-> fn]

\* dict.update: the fields of d2 replace or extend those of d1
DictUpdate(d1, d2) ==
    [f \in DOMAIN d1 \cup DOMAIN d2 |-> IF f \in DOMAIN d2 THEN d2[f] ELSE d1[f]]

\* lines 200-211: the metadata of the standard, the control and the family
\* are laid over the base metadata
OverlayMetadata(meta, stds, control) ==
    IF control.standard_key \notin DOMAIN stds THEN meta
    ELSE LET std == stds[control.standard_key]
             m1 == [meta EXCEPT !.standard.name = std.name]
         IN  IF control.control_key \notin DOMAIN std.controls THEN m1
             ELSE LET m2 == [m1 EXCEPT !.control =
                                DictUpdate(@, std.controls[control.control_key])]
                  IN  IF m2.control.family \in DOMAIN std.families
                      THEN [m2 EXCEPT !.family =
                                DictUpdate(@, std.families[m2.control.family])]
                      ELSE m2

\* mutant of ControlImplOf: the record does not get the key of the part
ControlImplOfNoKey(meta, narrative_part) ==
    DictUpdate(meta,
        [control_part |-> NoneStr,
         sort_key |-> << meta.control.sort_key,
                         make_control_number_sort_key(narrative_part.key) >>,
         narrative |-> narrative_part.text])

\* lines 217-222: the record of one narrative part
ControlImplOf(meta, narrative_part) ==
    DictUpdate(meta,
        [control_part |-> narrative_part.key,
         sort_key |-> << meta.control.sort_key,
                         make_control_number_sort_key(narrative_part.key) >>,
         narrative |-> narrative_part.text])

\* the texts a caller submits for a loaded record
UpdateTexts == { "t1" }

\* lines 235-241: what update_component_control reads of the record passed in
UpdateArg(controlimpl, text) ==
    [standard_id |-> controlimpl.standard.id, control_id |-> controlimpl.control.id,
     control_part |-> controlimpl.control_part, narrative |-> text]

(***************************************************************************)
(* The callers                                                             *)
(***************************************************************************)
NoHist == [loadFile |-> EmptyFile, loadPcs |-> [q \in Procs |-> "idle"],
           dumpFile |-> EmptyFile]

\* no caller of update_component_control has begun
UpdaterIdle ==
    /\ pc = [p \in Procs |-> "idle"]
    /\ rec = [p \in Procs |-> NoRec]
    /\ data = [p \in Procs |-> NoDoc]
    /\ ret = [p \in Procs |-> "pending"]
    /\ hist = [p \in Procs |-> NoHist]

\* get_contol has not been called
ResolverIdle ==
    /\ standard = << >>
    /\ control_id = << >>
    /\ control_parts = << >>
    /\ loop_i = 0
    /\ test_id = << >>
    /\ id_remainder = << >>
    /\ result = NoResult
    /\ rpc = "idle"

\* no request has come to update_control
HandlerIdle ==
    /\ cfiles = << >>
    /\ cfiles0 = << >>
    /\ form = NoForm
    /\ hfile = 0
    /\ hdata = NoCtlDoc
    /\ hpc = "idle"
    /\ response = "pending"

\* no sort key is being built
SortKeyIdle ==
    /\ sort_in = << >>
    /\ sort_keys = << >>
    /\ sort_order = None
    /\ kpc = "idle"

\* no project is being loaded
ProjectIdle ==
    /\ system_file = NoSystemFile
    /\ component_files = << >>
    /\ project = NoProject
    /\ raised = None
    /\ component_id = NoneStr
    /\ comp_i = 0
    /\ yielded = << >>
    /\ component = NoComponent
    /\ ppc = "idle"

\* no standards are being loaded
StandardsIdle ==
    /\ standards_system = [schema_version |-> None, standards |-> << >>]
    /\ std_i = 0
    /\ std_j = 0
    /\ std_yielded = << >>
    /\ std_raised = None
    /\ spc = "idle"

\* no component's controls are being loaded
ControlsIdle ==
    /\ standards = << >>
    /\ ctl_i = 0
    /\ ctl_j = 0
    /\ control_metadata = NoMetadata
    /\ ctl_yielded = << >>
    /\ ctl_origin = << >>
    /\ ctl_raised = None
    /\ updated_with = 0
    /\ cpc = "idle"

\* no loader is running
LoadersIdle ==
    /\ SortKeyIdle
    /\ ProjectIdle
    /\ StandardsIdle
    /\ ControlsIdle

Init ==
    /\ file \in { FileOf(d) : d \in Docs }
    /\ UpdaterIdle
    /\ ResolverIdle
    /\ HandlerIdle
    /\ LoadersIdle

\* mutant of Load: the parsed document is kept in a cache the callers share,
\* so a caller patches the document another caller has already patched
LoadSharedCache(p) ==
    LET cached == { q \in Procs \ {p} : pc[q] # "idle" /\ ret[q] # "raised" }
        base == IF cached # {} THEN data[CHOOSE q \in cached : TRUE] ELSE file.doc
    IN  /\ pc[p] = "idle"
        /\ file.kind = "doc" \/ cached # {}
        /\ \E r \in Records(p) :
            /\ rec' = [rec EXCEPT ![p] = r]
            /\ hist' = [hist EXCEPT ![p].loadFile = file, ![p].loadPcs = pc]
            /\ data' = [data EXCEPT ![p] = UpdateDoc(base, r)]
            /\ pc' = [pc EXCEPT ![p] = "patched"]
        /\ UNCHANGED <<file, ret, rvars, hvars, xvars>>

\* lines 229-241: open the file "r+", parse it, patch the parsed document
Load(p) ==
    /\ pc[p] = "idle"
    /\ \E r \in Records(p) :
        /\ rec' = [rec EXCEPT ![p] = r]
        /\ hist' = [hist EXCEPT ![p].loadFile = file, ![p].loadPcs = pc]
        /\ IF file.kind = "doc"
           THEN /\ data' = [data EXCEPT ![p] = UpdateDoc(file.doc, r)]
                /\ pc' = [pc EXCEPT ![p] = "patched"]
                /\ ret' = ret
           ELSE \* rtyaml.load of an empty file is None and data["satisfies"]
                \* raises; a garbled file does not parse
                /\ data' = data
                /\ pc' = [pc EXCEPT ![p] = "done"]
                /\ ret' = [ret EXCEPT ![p] = "raised"]
    /\ UNCHANGED <<file, rvars, hvars, xvars>>

\* lines 245-246: f.seek(0); f.truncate()
Truncate(p) ==
    /\ pc[p] = "patched"
    /\ file' = EmptyFile
    /\ hist' = hist
    /\ pc' = [pc EXCEPT ![p] = "truncated"]
    /\ UNCHANGED <<rec, data, ret, rvars, hvars, xvars>>

\* line 247 and the end of the with block: the document is written from
\* offset 0 and the function returns None.  Bytes another caller wrote past
\* the end of this caller's output stay in the file.
Dump(p) ==
    /\ pc[p] = "truncated"
    /\ \/ file' = FileOf(data[p])
       \/ file.kind # "empty" /\ file' = GarbledFile
    /\ hist' = [hist EXCEPT ![p].dumpFile = file']
    /\ pc' = [pc EXCEPT ![p] = "done"]
    /\ ret' = [ret EXCEPT ![p] = None]
    /\ UNCHANGED <<rec, data, rvars, hvars, xvars>>

Next == \E p \in Procs : Load(p) \/ Truncate(p) \/ Dump(p)

Spec == Init /\ [][Next]_vars

(***************************************************************************)
(* get_contol as a state machine                                           *)
(***************************************************************************)
InitResolve ==
    /\ file = FileOf([schema_version |-> "3.0.0", name |-> "Component", satisfies |-> << >>])
    /\ UpdaterIdle
    /\ standard \in Catalogs
    /\ control_id \in ControlIds
    /\ control_parts = << >>
    /\ loop_i = 0
    /\ test_id = << >>
    /\ id_remainder = << >>
    /\ result = NoResult
    /\ rpc = "start"
    /\ HandlerIdle
    /\ LoadersIdle

\* lines 173-174: split the id; the loop starts at the last index
Tokenize ==
    /\ rpc = "start"
    /\ control_parts' = ReSplit(control_id)
    /\ loop_i' = Len(ReSplit(control_id)) - 1
    /\ rpc' = "loop"
    /\ UNCHANGED <<standard, control_id, test_id, id_remainder, result, uvars, hvars, xvars>>

\* lines 178-182: the record returned on a match
MatchRecord(std, cid, tid, rem) ==
    [id |-> cid \o (IF rem = << >> THEN << >> ELSE rem),
     name |-> std[tid].name \o (IF rem = << >> THEN << >> ELSE <<" ">> \o rem),
     description |-> IF rem = << >> THEN std[tid].description
                     ELSE Str_See \o tid \o <<",", " ">> \o rem \o <<".">>]

\* lines 185-189: the record returned when nothing matched
DummyRecord(cid) ==
    [id |-> cid, name |-> <<"[">> \o cid \o <<"]">>, description |-> NoneStr]

\* lines 174-182: one pass of the loop, for i in reversed(range(len(parts)))
TestPrefix ==
    /\ rpc = "loop"
    /\ loop_i >= 0
    /\ test_id' = Join(SubSeq(control_parts, 1, loop_i + 1))
    /\ id_remainder' = Join(SubSeq(control_parts, loop_i + 2, Len(control_parts)))
    /\ IF test_id' \in DOMAIN standard
       THEN /\ result' = MatchRecord(standard, control_id, test_id', id_remainder')
            /\ rpc' = "found"
            /\ loop_i' = loop_i
       ELSE /\ loop_i' = loop_i - 1
            /\ UNCHANGED <<result, rpc>>
    /\ UNCHANGED <<standard, control_id, control_parts, uvars, hvars, xvars>>

\* lines 184-189: the loop ended without a match
NotFound ==
    /\ rpc = "loop"
    /\ loop_i < 0
    /\ result' = DummyRecord(control_id)
    /\ rpc' = "notfound"
    /\ UNCHANGED <<standard, control_id, control_parts, loop_i, test_id, id_remainder, uvars, hvars, xvars>>

NextResolve == Tokenize \/ TestPrefix \/ NotFound

SpecResolve == InitResolve /\ [][NextResolve]_vars

(***************************************************************************)
(* update_control as a state machine: one request                          *)
(***************************************************************************)
InitRoute ==
    /\ file = FileOf([schema_version |-> "3.0.0", name |-> "Component", satisfies |-> << >>])
    /\ UpdaterIdle
    /\ ResolverIdle
    /\ cfiles \in CtlFileLists
    /\ cfiles0 = cfiles
    /\ form \in Forms
    /\ hfile = 1
    /\ hdata = NoCtlDoc
    /\ hpc = "scan"
    /\ response = "pending"
    /\ LoadersIdle

\* lines 630-653: open the next control file and parse it; at the first entry
\* that matches, set its three fields; with no match go on to the next file
ScanFile ==
    /\ hpc = "scan"
    /\ hfile <= Len(cfiles)
    /\ LET d == cfiles[hfile].doc
           M == FormMatches(d, form)
       IN  IF M = {}
           THEN /\ hfile' = hfile + 1
                /\ UNCHANGED <<hdata, hpc>>
           ELSE /\ hdata' = [d EXCEPT !.satisfies[First(M)] = PatchEntry(@, form)]
                /\ hpc' = "patched"
                /\ hfile' = hfile
    /\ UNCHANGED <<cfiles, cfiles0, form, response, uvars, rvars, xvars>>

\* lines 656-657: f.seek(0); f.truncate()
RouteTruncate ==
    /\ hpc = "patched"
    /\ cfiles' = [cfiles EXCEPT ![hfile] = [kind |-> "empty", doc |-> NoCtlDoc]]
    /\ hpc' = "truncated"
    /\ UNCHANGED <<cfiles0, form, hfile, hdata, response, uvars, rvars, xvars>>

\* lines 658-661: rtyaml.dump(data, f); return "OK"
RouteDump ==
    /\ hpc = "truncated"
    /\ cfiles' = [cfiles EXCEPT ![hfile] = FileOf(hdata)]
    /\ response' = "OK"
    /\ hpc' = "done"
    /\ UNCHANGED <<cfiles0, form, hfile, hdata, uvars, rvars, xvars>>

\* lines 663-664: no file had a matching entry
RouteNotFound ==
    /\ hpc = "scan"
    /\ hfile > Len(cfiles)
    /\ response' = "NOTFOUND"
    /\ hpc' = "done"
    /\ UNCHANGED <<cfiles, cfiles0, form, hfile, hdata, uvars, rvars, xvars>>

NextRoute == ScanFile \/ RouteTruncate \/ RouteDump \/ RouteNotFound

SpecRoute == InitRoute /\ [][NextRoute]_vars

(***************************************************************************)
(* make_control_number_sort_key as a state machine: a caller builds the    *)
(* keys of two strings and orders them                                     *)
(***************************************************************************)
InitSortKey ==
    /\ file = FileOf([schema_version |-> "3.0.0", name |-> "Component", satisfies |-> << >>])
    /\ UpdaterIdle
    /\ ResolverIdle
    /\ HandlerIdle
    /\ sort_in \in SortInputs \X SortInputs
    /\ sort_keys = << >>
    /\ sort_order = None
    /\ kpc = "keys"
    /\ ProjectIdle
    /\ StandardsIdle
    /\ ControlsIdle

\* lines 94-96: one call
MakeSortKey ==
    /\ kpc = "keys"
    /\ Len(sort_keys) < 2
    /\ sort_keys' = Append(sort_keys, make_control_number_sort_key(sort_in[Len(sort_keys) + 1]))
    /\ UNCHANGED <<sort_in, sort_order, kpc, uvars, rvars, hvars, pvars, svars, cvars>>

\* the two keys are compared, as a sort by sort_key compares them
CompareSortKeys ==
    /\ kpc = "keys"
    /\ Len(sort_keys) = 2
    /\ sort_order' = KeyOrder(sort_keys[1], sort_keys[2])
    /\ kpc' = "done"
    /\ UNCHANGED <<sort_in, sort_keys, uvars, rvars, hvars, pvars, svars, cvars>>

NextSortKey == MakeSortKey \/ CompareSortKeys

SpecSortKey == InitSortKey /\ [][NextSortKey]_vars

(***************************************************************************)
(* The project loaders as a state machine: load_project_from_path, then    *)
(* load_project_components iterated by a caller, or by                     *)
(* load_project_component when an id is asked for                          *)
(***************************************************************************)
InitProject ==
    /\ file = FileOf([schema_version |-> "3.0.0", name |-> "Component", satisfies |-> << >>])
    /\ UpdaterIdle
    /\ ResolverIdle
    /\ HandlerIdle
    /\ SortKeyIdle
    /\ system_file \in SystemFiles
    /\ component_files \in ComponentLists
    /\ component_id \in WantedIds(component_files)
    /\ project = NoProject
    /\ raised = None
    /\ comp_i = 0
    /\ yielded = << >>
    /\ component = NoComponent
    /\ ppc = "start"
    /\ StandardsIdle
    /\ ControlsIdle

\* lines 12-49: load_project_from_path
LoadProject ==
    /\ ppc = "start"
    /\ IF SchemaIs(system_file, "1.0.0")
       THEN /\ project' = ProjectOf(ProjectDir, system_file)
            /\ ppc' = "loaded"
            /\ UNCHANGED raised
       ELSE /\ raised' = "ValueError: schema_version"
            /\ ppc' = "done"
            /\ UNCHANGED project
    /\ UNCHANGED <<system_file, component_files, component_id, comp_i, yielded, component,
                   uvars, rvars, hvars, kvars, svars, cvars>>

\* lines 56-60: the generator starts; it reads the system manifest again
OpenComponents ==
    /\ ppc = "loaded"
    /\ IF SchemaIs(system_file, "1.0.0")
       THEN /\ comp_i' = 1
            /\ ppc' = "components"
            /\ UNCHANGED raised
       ELSE /\ raised' = "ValueError: schema_version"
            /\ ppc' = "done"
            /\ UNCHANGED comp_i
    /\ UNCHANGED <<system_file, component_files, project, component_id, yielded, component,
                   uvars, rvars, hvars, kvars, svars, cvars>>

\* lines 62-81: the generator reads the next declared component and yields it
\* or raises; lines 84-86: load_project_component returns it when its id is
\* the one asked for, and the generator is not resumed
NextComponent ==
    /\ ppc = "components"
    /\ comp_i <= Len(component_files)
    /\ IF SchemaIs(component_files[comp_i].doc, "3.0.0")
       THEN LET c == ComponentOf(project, component_files[comp_i])
            IN  /\ yielded' = Append(yielded, c)
                /\ comp_i' = comp_i + 1
                /\ IF component_id # NoneStr /\ c.id = component_id
                   THEN component' = c /\ ppc' = "done"
                   ELSE UNCHANGED <<component, ppc>>
                /\ UNCHANGED raised
       ELSE /\ raised' = "ValueError: schema_version"
            /\ ppc' = "done"
            /\ UNCHANGED <<yielded, comp_i, component>>
    /\ UNCHANGED <<system_file, component_files, project, component_id,
                   uvars, rvars, hvars, kvars, svars, cvars>>

\* the generator is exhausted; line 87: load_project_component raises
EndComponents ==
    /\ ppc = "components"
    /\ comp_i > Len(component_files)
    /\ raised' = IF component_id # NoneStr THEN "ValueError: does not exist" ELSE raised
    /\ ppc' = "done"
    /\ UNCHANGED <<system_file, component_files, project, component_id, comp_i, yielded,
                   component, uvars, rvars, hvars, kvars, svars, cvars>>

NextProject == LoadProject \/ OpenComponents \/ NextComponent \/ EndComponents

SpecProject == InitProject /\ [][NextProject]_vars

(***************************************************************************)
(* load_project_standards as a state machine: the generator, iterated      *)
(***************************************************************************)
InitStandards ==
    /\ file = FileOf([schema_version |-> "3.0.0", name |-> "Component", satisfies |-> << >>])
    /\ UpdaterIdle
    /\ ResolverIdle
    /\ HandlerIdle
    /\ SortKeyIdle
    /\ ProjectIdle
    /\ standards_system \in StandardsSystems
    /\ std_i = 0
    /\ std_j = 0
    /\ std_yielded = << >>
    /\ std_raised = None
    /\ spc = "start"
    /\ ControlsIdle

\* lines 102-106: the system manifest is read and its schema checked
StartStandards ==
    /\ spc = "start"
    /\ IF SchemaIs(standards_system, "1.0.0")
       THEN /\ std_i' = 1
            /\ spc' = "dirs"
            /\ UNCHANGED std_raised
       ELSE /\ std_raised' = "ValueError: schema_version"
            /\ spc' = "done"
            /\ UNCHANGED std_i
    /\ UNCHANGED <<standards_system, std_j, std_yielded, uvars, rvars, hvars, kvars, pvars, cvars>>

\* lines 107-117: the manifest of the next standards directory is read and
\* its schema checked; a directory that lists no catalog file is passed over
OpenStandardsDir ==
    /\ spc = "dirs"
    /\ std_i <= Len(standards_system.standards)
    /\ LET standards_opencontrol == standards_system.standards[std_i]
       IN  IF ~SchemaIs(standards_opencontrol, "1.0.0")
           THEN /\ std_raised' = "ValueError: schema_version"
                /\ spc' = "done"
                /\ UNCHANGED <<std_i, std_j>>
           ELSE IF standards_opencontrol.standards = << >>
           THEN /\ std_i' = std_i + 1
                /\ UNCHANGED <<std_j, std_raised, spc>>
           ELSE /\ std_j' = 1
                /\ spc' = "files"
                /\ UNCHANGED <<std_i, std_raised>>
    /\ UNCHANGED <<standards_system, std_yielded, uvars, rvars, hvars, kvars, pvars, cvars>>

\* lines 117-155: the next catalog file of the directory is read and its
\* (standard_key, standard) yielded; after the last file of the directory the
\* loop of line 107 goes on
NextStandard ==
    /\ spc = "files"
    /\ LET d == standards_system.standards[std_i]
           f == d.standards[std_j]
           standard_key == StandardKeyOf(ProjectDir, d.dir, f.fn)
       IN  /\ std_yielded' = Append(std_yielded,
                                    << standard_key, StandardOf(standard_key, f.doc) >>)
           /\ IF std_j < Len(d.standards)
              THEN std_j' = std_j + 1 /\ UNCHANGED <<std_i, spc>>
              ELSE std_i' = std_i + 1 /\ spc' = "dirs" /\ UNCHANGED std_j
    /\ UNCHANGED <<standards_system, std_raised, uvars, rvars, hvars, kvars, pvars, cvars>>

\* the loop of line 107 ends: the generator is exhausted
EndStandards ==
    /\ spc = "dirs"
    /\ std_i > Len(standards_system.standards)
    /\ spc' = "done"
    /\ UNCHANGED <<standards_system, std_i, std_j, std_yielded, std_raised,
                   uvars, rvars, hvars, kvars, pvars, cvars>>

NextStandards == StartStandards \/ OpenStandardsDir \/ NextStandard \/ EndStandards

SpecStandards == InitStandards /\ [][NextStandards]_vars

(***************************************************************************)
(* load_project_component_controls as a state machine: the generator,      *)
(* iterated, and then update_component_control called with a yielded       *)
(* record and a new text                                                   *)
(***************************************************************************)
InitControls ==
    /\ file \in { FileOf(d) : d \in LoadedDocs }
    /\ UpdaterIdle
    /\ ResolverIdle
    /\ HandlerIdle
    /\ SortKeyIdle
    /\ ProjectIdle
    /\ StandardsIdle
    /\ standards \in LoadedStandards
    /\ ctl_i = 0
    /\ ctl_j = 0
    /\ control_metadata = NoMetadata
    /\ ctl_yielded = << >>
    /\ ctl_origin = << >>
    /\ ctl_raised = None
    /\ updated_with = 0
    /\ cpc = "start"

\* lines 162-166: the component.yaml is read and its schema checked
OpenComponentFile ==
    /\ cpc = "start"
    /\ IF SchemaIs(file.doc, "3.0.0")
       THEN /\ ctl_i' = 1
            /\ cpc' = "entries"
            /\ UNCHANGED ctl_raised
       ELSE /\ ctl_raised' = "ValueError: schema_version"
            /\ cpc' = "done"
            /\ UNCHANGED ctl_i
    /\ UNCHANGED <<standards, ctl_j, control_metadata, ctl_yielded, ctl_origin, updated_with,
                   uvars, rvars, hvars, kvars, pvars, svars>>

\* lines 168-216: the metadata of the next entry is built; control["name"]
\* raises KeyError for an entry without name; an entry with no narrative
\* part is passed over
NextControl ==
    /\ cpc = "entries"
    /\ ctl_i <= Len(file.doc.satisfies)
    /\ LET control == file.doc.satisfies[ctl_i]
       IN  IF ~control.has_name
           THEN /\ ctl_raised' = "KeyError: name"
                /\ cpc' = "done"
                /\ UNCHANGED <<ctl_i, ctl_j, control_metadata>>
           ELSE /\ control_metadata' =
                      OverlayMetadata(BaseMetadata(TheComponent, ComponentYaml, control),
                                      standards, control)
                /\ IF GetNarrative(control) = << >>
                   THEN ctl_i' = ctl_i + 1 /\ UNCHANGED <<ctl_j, cpc>>
                   ELSE ctl_j' = 1 /\ cpc' = "parts" /\ UNCHANGED ctl_i
                /\ UNCHANGED ctl_raised
    /\ UNCHANGED <<standards, ctl_yielded, ctl_origin, updated_with,
                   uvars, rvars, hvars, kvars, pvars, svars>>

\* lines 216-223: the record of the next narrative part is yielded; after
\* the last part the loop of line 168 goes on
NextPart ==
    /\ cpc = "parts"
    /\ LET narrative == GetNarrative(file.doc.satisfies[ctl_i])
       IN  /\ ctl_yielded' = Append(ctl_yielded,
                                    ControlImplOf(control_metadata, narrative[ctl_j]))
           /\ ctl_origin' = Append(ctl_origin, << ctl_i, ctl_j >>)
           /\ IF ctl_j < Len(narrative)
              THEN ctl_j' = ctl_j + 1 /\ UNCHANGED <<ctl_i, cpc>>
              ELSE ctl_i' = ctl_i + 1 /\ cpc' = "entries" /\ UNCHANGED ctl_j
    /\ UNCHANGED <<standards, control_metadata, ctl_raised, updated_with,
                   uvars, rvars, hvars, kvars, pvars, svars>>

\* the loop of line 168 ends: the generator is exhausted
EndControls ==
    /\ cpc = "entries"
    /\ ctl_i > Len(file.doc.satisfies)
    /\ cpc' = "done"
    /\ UNCHANGED <<standards, ctl_i, ctl_j, control_metadata, ctl_yielded, ctl_origin,
                   ctl_raised, updated_with, uvars, rvars, hvars, kvars, pvars, svars>>

\* lines 225-247: update_component_control, called once by a single caller
\* with a yielded record that carries a new text; it opens the file the
\* record names
UpdateYielded ==
    /\ cpc = "done"
    /\ updated_with = 0
    /\ \E k \in 1..Len(ctl_yielded) : \E t \in UpdateTexts :
          /\ updated_with' = k
          /\ IF ctl_yielded[k].source_file = ComponentYaml
             THEN /\ file' = FileOf(UpdateDoc(file.doc, UpdateArg(ctl_yielded[k], t)))
                  /\ UNCHANGED ctl_raised
             ELSE /\ ctl_raised' = "FileNotFoundError"
                  /\ UNCHANGED file
    /\ UNCHANGED <<standards, ctl_i, ctl_j, control_metadata, ctl_yielded, ctl_origin, cpc,
                   pc, rec, data, ret, hist, rvars, hvars, kvars, pvars, svars>>

NextControls == OpenComponentFile \/ NextControl \/ NextPart \/ EndControls \/ UpdateYielded

SpecControls == InitControls /\ [][NextControls]_vars

(***************************************************************************)
(* Properties of update_component_control                                  *)
(***************************************************************************)
Started(p) == pc[p] # "idle"
Alone(p) == \A q \in Procs \ {p} : pc[q] = "idle"
Returned(p) == pc[p] = "done" /\ ret[p] = None
\* the document caller p read
Pre(p) == hist[p].loadFile.doc
TextAt(d, f) == d.satisfies[f[1]].narrative[f[2]].text
SetText(d, f, t) == [d EXCEPT !.satisfies[f[1]].narrative[f[2]].text = t]
\* the record load_project_component_controls makes of the part at f
RecordOf(d, f, t) ==
    [standard_id |-> d.satisfies[f[1]].standard_key,
     control_id |-> d.satisfies[f[1]].control_key,
     control_part |-> d.satisfies[f[1]].narrative[f[2]].key,
     narrative |-> t]
\* q's call began after p's call had returned
After(q, p) == Started(q) /\ hist[q].loadPcs[p] = "done"
\* p and q both read the file before either of them wrote to it
BothReadBeforeEitherWrote(p, q) ==
    /\ Started(p) /\ hist[p].loadPcs[q] \in {"idle", "patched"}
    /\ Started(q) /\ hist[q].loadPcs[p] \in {"idle", "patched"}
\* every part r targets in the document read holds r's text in d
Reflects(d, r, pre) ==
    /\ Fragments(d) = Fragments(pre)
    /\ \A f \in Targets(pre, r) : TextAt(d, f) = r.narrative

\* C1: a call whose (standard_key, control_key, control_part) matches no part
\* of the file leaves the file unmodified at every step (it is not rewritten)
\* and returns an outcome other than the one a successful call returns (None),
\* without raising.
C1_NoMatchLeavesFile ==
    \A p \in Procs :
        (Started(p) /\ Alone(p) /\ Targets(Pre(p), rec[p]) = {})
        => /\ file = hist[p].loadFile
           /\ pc[p] = "done" => ret[p] \notin {None, "raised"}

\* C2: after an update that found its target the file differs from the file
\* read only in the text of one narrative part, the one the record names.
C2_OnlyOneFragmentChanges ==
    \A p \in Procs :
        (Alone(p) /\ Returned(p) /\ Targets(Pre(p), rec[p]) # {})
        => \E f \in Targets(Pre(p), rec[p]) :
              file = FileOf(SetText(Pre(p), f, rec[p].narrative))

\* C3: when two calls that target different parts both read the file before
\* either wrote and both return normally, the file left is the rewrite of one
\* of them, or a mix of the two rewrites, and does not hold both new texts:
\* the lost update is what this interleaving produces.
C3_LostUpdate ==
    \A p, q \in Procs :
        ( /\ p # q /\ Returned(p) /\ Returned(q)
          /\ BothReadBeforeEitherWrote(p, q)
          /\ Targets(Pre(p), rec[p]) # {} /\ Targets(Pre(q), rec[q]) # {}
          /\ Targets(Pre(p), rec[p]) \cap Targets(Pre(q), rec[q]) = {} )
        => \/ file = GarbledFile
           \/ /\ file \in {FileOf(data[p]), FileOf(data[q])}
              /\ ~(Reflects(file.doc, rec[p], Pre(p)) /\ Reflects(file.doc, rec[q], Pre(q)))

\* C3's case: both calls returned normally and the file holds q's text and
\* not p's.
C3_Witness ==
    \E p, q \in Procs :
        /\ p # q /\ Returned(p) /\ Returned(q)
        /\ BothReadBeforeEitherWrote(p, q)
        /\ Targets(Pre(p), rec[p]) # {} /\ Targets(Pre(q), rec[q]) # {}
        /\ Targets(Pre(p), rec[p]) \cap Targets(Pre(q), rec[q]) = {}
        /\ file = FileOf(data[q])
        /\ Reflects(file.doc, rec[q], Pre(q))
        /\ \A f \in Targets(Pre(p), rec[p]) : TextAt(file.doc, f) = OldText

\* C4: two calls made one after the other with records taken from two
\* different parts of the file, as it was before the first call, leave a file
\* that holds both new texts.
C4_SequentialBothReflected ==
    \A p, q \in Procs :
        (p # q /\ Returned(p) /\ Returned(q) /\ After(q, p))
        => \A f1, f2 \in Fragments(Pre(p)) :
              ( /\ f1 # f2
                /\ rec[p] = RecordOf(Pre(p), f1, rec[p].narrative)
                /\ rec[q] = RecordOf(Pre(p), f2, rec[q].narrative) )
              => /\ file.kind = "doc"
                 /\ TextAt(file.doc, f1) = rec[p].narrative
                 /\ TextAt(file.doc, f2) = rec[q].narrative

\* C5: a second call with the same record and text, made after the first
\* returned, leaves the file exactly as the first call left it.
C5_Idempotent ==
    \A p, q \in Procs :
        (p # q /\ Returned(p) /\ Returned(q) /\ After(q, p) /\ rec[q] = rec[p])
        => file = hist[p].dumpFile

\* C5's case: the first call found its target and changed the file, and the
\* second call with the same record has returned.
C5_Witness ==
    \E p, q \in Procs :
        /\ p # q /\ Returned(p) /\ Returned(q) /\ After(q, p) /\ rec[q] = rec[p]
        /\ Targets(Pre(p), rec[p]) # {}
        /\ hist[p].dumpFile # hist[p].loadFile
        /\ file = hist[p].dumpFile

\* C6: at every step of a call, and after it, the file on disk is the complete
\* document read or the complete updated document.
C6_NoPartialFile ==
    \A p \in Procs :
        (Started(p) /\ Alone(p))
        => file \in {hist[p].loadFile, FileOf(data[p])}


(***************************************************************************)
(* Properties of get_contol                                                *)
(***************************************************************************)
ResolveReturned == rpc \in {"found", "notfound"}
\* what of control_id follows the matched key
Suffix == SubSeq(control_id, Len(test_id) + 1, Len(control_id))
StartsWith(s, pre) == Len(pre) <= Len(s) /\ SubSeq(s, 1, Len(pre)) = pre

\* k characters of s end at a token boundary: at the end of s, where the
\* character class (word, whitespace, punctuation) changes, or before a
\* leading separator (the empty first token)
IsBoundary(s, k) ==
    \/ k = Len(s)
    \/ k >= 1 /\ k < Len(s) /\ CharClass(s[k]) # CharClass(s[k + 1])
    \/ k = 0 /\ Len(s) > 0 /\ CharClass(s[1]) # "word"

\* the lengths of the token-boundary prefixes of control_id that are catalog keys
Candidates ==
    { k \in 0..Len(control_id) :
        IsBoundary(control_id, k) /\ SubSeq(control_id, 1, k) \in DOMAIN standard }

\* C7: on a match of a key that is a proper prefix of the input, the name
\* returned is the catalog entry's name followed by the unmatched suffix
\* verbatim, nothing inserted or removed (AC-2 (H) gives Account Management (H)).
C7_NameVerbatimSuffix ==
    (rpc = "found" /\ Len(test_id) < Len(control_id))
    => result.name = standard[test_id].name \o Suffix

\* C8: the id of the record returned is the input string unchanged, on an
\* exact match, on a match of a shorter prefix and on no match.
C8_IdIsInput ==
    ResolveReturned => result.id = control_id

\* C9: on a match the description is the catalog entry's description when the
\* whole input is the matched key, and otherwise a cross-reference "See <key>,
\* <suffix>." with exactly one space between the comma and the suffix.
C9_Description ==
    rpc = "found"
    => IF Suffix = << >>
       THEN result.description = standard[test_id].description
       ELSE LET lead == Str_See \o test_id \o <<",", " ">>
            IN  /\ StartsWith(result.description, lead)
                /\ Len(result.description) > Len(lead)
                /\ result.description[Len(lead) + 1] \notin SpaceChars
                /\ result.description[Len(result.description)] = "."

\* C10: the record returned is built from the longest prefix of the input
\* that ends at a token boundary and is a catalog key; the synthetic record
\* (name "[input]", description None) is returned exactly when no
\* token-boundary prefix is a catalog key.
C10_LongestBoundaryPrefix ==
    /\ rpc = "found"
       => /\ Candidates # {}
          /\ test_id = SubSeq(control_id, 1, Longest(Candidates))
          /\ StartsWith(result.name, standard[SubSeq(control_id, 1, Longest(Candidates))].name)
    /\ rpc = "notfound"
       => /\ Candidates = {}
          /\ result.name = <<"[">> \o control_id \o <<"]">>
          /\ result.description = NoneStr

\* C10's case: two token-boundary prefixes of the input are catalog keys, the
\* match is the longer one, and it is a proper prefix of the input.
C10_Witness ==
    /\ rpc = "found"
    /\ Cardinality(Candidates) >= 2
    /\ Len(test_id) < Len(control_id)
    /\ Len(test_id) = Longest(Candidates)

(***************************************************************************)
(* Properties of make_control_number_sort_key                              *)
(***************************************************************************)
\* str(n) of a natural number
RECURSIVE StrOf(_)
StrOf(n) ==
    LET d == << CHOOSE c \in DigitChars : DigitVal(c) = n % 10 >>
    IN  IF n < 10 THEN d ELSE StrOf(n \div 10) \o d

\* the strings of the arguments that hold no digit
NonDigitPrefixes == SeqsUpTo(SortAlphabet \ DigitChars, MaxSortLen)

\* the natural numbers m, n of the ordered pairs
SortNumbers == 0..MaxSortNumber

\* the pairs (p + str(m), p + str(n)) with m < n
NumberedPairs ==
    { << p \o StrOf(mn[1]), p \o StrOf(mn[2]) >> :
        p \in NonDigitPrefixes,
        mn \in { x \in SortNumbers \X SortNumbers : x[1] < x[2] } }

\* C14: for every prefix p without digits and naturals m < n, the key of
\* p + str(m) is less than the key of p + str(n), also where str(m) sorts
\* after str(n) as text; and the key of None equals the key of "".
C14_NaturalOrder ==
    kpc = "done" =>
        /\ sort_in \in NumberedPairs => sort_order = "lt"
        /\ sort_in = << NoneStr, << >> >> =>
               sort_order = "eq" /\ sort_keys[1] = sort_keys[2]

\* C14: the keys of "A2" and "A10" have been built and ordered, where the
\* text "2" sorts after the text "10"
C14_Witness ==
    /\ kpc = "done"
    /\ sort_in = << <<"A", "2">>, <<"A", "1", "0">> >>
    /\ StrOrder(sort_in[1], sort_in[2]) = "gt"
    /\ sort_order = "lt"

(***************************************************************************)
(* Properties of the project loaders                                       *)
(***************************************************************************)
\* C12: load_project_from_path on a system manifest whose schema_version is
\* not "1.0.0" (absent included) raises the schema error and returns no
\* project record, and nothing of the project is loaded afterwards; with
\* "1.0.0" it returns the project record and does not raise.
C12_SchemaGate ==
    ppc # "start" =>
        /\ system_file.schema_version # "1.0.0" =>
               /\ raised = "ValueError: schema_version"
               /\ project = NoProject
               /\ yielded = << >>
               /\ ppc = "done"
        /\ system_file.schema_version = "1.0.0" =>
               /\ project = ProjectOf(ProjectDir, system_file)
               /\ ppc = "loaded" => raised = None

\* C12: load_project_from_path has raised on a manifest of schema 0.9.0
C12_Witness ==
    /\ ppc = "done"
    /\ system_file.schema_version = "0.9.0"
    /\ raised = "ValueError: schema_version"
    /\ project = NoProject

\* the declared components whose manifest has a schema_version other than "3.0.0"
BadComponents ==
    { k \in 1..Len(component_files) : component_files[k].doc.schema_version # "3.0.0" }

\* C13: if a declared component manifest has a schema_version other than
\* "3.0.0", no component of the project is delivered: load_project_components
\* yields none and load_project_component returns none.
C13_AllOrNothing ==
    BadComponents # {} => yielded = << >> /\ component = NoComponent

\* letters, digits and the separator of the identifiers
IdChars ==
    { CharTable[k] : k \in 1..Len(CharTable) } \ {" ", "%", "+", ".", "/", "_", "~"}

\* routes.py line 30: the characters a path variable of a route matches
ALLOWED_PATH_CHARS ==
    { CharTable[k] : k \in 1..Len(CharTable) } \ {" ", "/"}

\* the identifier is made of letters, digits and "-" only, and a route
\* matches it as a path segment
IsSafeId(id) ==
    /\ \A k \in 1..Len(id) : id[k] \in IdChars
    /\ \A k \in 1..Len(id) : id[k] \in ALLOWED_PATH_CHARS

\* C15: every identifier the loaders generate (organization id, project id,
\* component id) consists of letters, digits and "-" only, so that it is a
\* URL path segment as it is.
C15_SafeIds ==
    /\ project # NoProject => IsSafeId(project.id) /\ IsSafeId(project.organization.id)
    /\ \A k \in 1..Len(yielded) : IsSafeId(yielded[k].id)

(***************************************************************************)
(* Properties of load_project_standards                                    *)
(***************************************************************************)
\* C17: the standard keys load_project_standards yields in one load are
\* pairwise distinct.
C17_DistinctStandardKeys ==
    \A j, k \in 1..Len(std_yielded) : j # k => std_yielded[j][1] # std_yielded[k][1]

\* the catalog file the k-th yielded pair was read from
RECURSIVE FlatCatalogFiles(_)
FlatCatalogFiles(dirs) ==
    IF dirs = << >> THEN << >> ELSE Head(dirs).standards \o FlatCatalogFiles(Tail(dirs))

\* C18: in every yielded standard, a mapping entry of the catalog file is in
\* "families" iff its type is "family" and in "controls" iff it is not, so
\* every mapping entry is in exactly one of the two maps; a scalar entry is
\* in neither.
C18_Partition ==
    \A k \in 1..Len(std_yielded) :
        LET doc == FlatCatalogFiles(standards_system.standards)[k].doc
            std == std_yielded[k][2]
        IN  \A key \in DOMAIN doc :
               IF doc[key].isdict
               THEN /\ key \in DOMAIN std.families <=> doc[key].type = "family"
                    /\ key \in DOMAIN std.controls <=> doc[key].type # "family"
               ELSE key \notin DOMAIN std.families /\ key \notin DOMAIN std.controls

(***************************************************************************)
(* Properties of load_project_component_controls                           *)
(***************************************************************************)
\* the generator has ended on a component.yaml of the supported schema
ControlsLoaded == cpc = "done" /\ SchemaIs(file.doc, "3.0.0")

\* the yielded records that were read from entry i
RecordsOfEntry(i) == { k \in 1..Len(ctl_yielded) : ctl_origin[k][1] = i }

\* C11: the generator emits exactly one record per narrative fragment: as
\* many records as the entries have fragments together, none for an entry
\* with no fragment; the records of one entry carry the same standard,
\* control and family, and each carries the key and text of its fragment and
\* sort_key = (control.sort_key, natural sort key of the fragment key).
C11_OneRecordPerFragment ==
    ControlsLoaded =>
        /\ Len(ctl_yielded) = CountParts(file.doc.satisfies)
        /\ \A i \in 1..Len(file.doc.satisfies) :
               /\ Cardinality(RecordsOfEntry(i)) = Len(GetNarrative(file.doc.satisfies[i]))
               /\ \A k, l \in RecordsOfEntry(i) :
                      /\ ctl_yielded[k].standard = ctl_yielded[l].standard
                      /\ ctl_yielded[k].control = ctl_yielded[l].control
                      /\ ctl_yielded[k].family = ctl_yielded[l].family
        /\ \A k \in 1..Len(ctl_yielded) :
               LET part == file.doc.satisfies[ctl_origin[k][1]].narrative[ctl_origin[k][2]]
               IN  /\ ctl_yielded[k].control_part = part.key
                   /\ ctl_yielded[k].narrative = OldText
                   /\ ctl_yielded[k].sort_key =
                         << ctl_yielded[k].control.sort_key,
                            make_control_number_sort_key(part.key) >>

\* C19: an entry without "name" is processed without error and yields one
\* record for each of its narrative fragments.
C19_NameOptional ==
    ControlsLoaded =>
        \A i \in 1..Len(file.doc.satisfies) :
            ~file.doc.satisfies[i].has_name =>
                /\ ctl_raised # "KeyError: name"
                /\ \A j \in 1..Len(GetNarrative(file.doc.satisfies[i])) :
                       \E k \in 1..Len(ctl_yielded) : ctl_origin[k] = << i, j >>

\* C20: every yielded record keeps standard.id = standard_key and
\* control.id = control_key of its entry (also with the catalog laid over),
\* control_part = the key of its fragment and source_file = the
\* component.yaml read; and update_component_control called with it on
\* that file has rewritten the fragment the record was read from.
C20_RoundTrip ==
    /\ \A k \in 1..Len(ctl_yielded) :
           LET control == file.doc.satisfies[ctl_origin[k][1]]
           IN  /\ ctl_yielded[k].standard.id = control.standard_key
               /\ ctl_yielded[k].control.id = control.control_key
               /\ ctl_yielded[k].control_part = control.narrative[ctl_origin[k][2]].key
               /\ ctl_yielded[k].source_file = ComponentYaml
    /\ updated_with # 0 =>
           /\ ctl_raised # "FileNotFoundError"
           /\ file.kind = "doc"
           /\ file.doc.satisfies[ctl_origin[updated_with][1]]
                  .narrative[ctl_origin[updated_with][2]].text \in UpdateTexts

\* C20: update_component_control was called with the record of the second
\* fragment (key "b") of an entry whose control the catalog describes
C20_Witness ==
    /\ updated_with # 0
    /\ ctl_origin[updated_with][2] = 2
    /\ ctl_yielded[updated_with].control_part = <<"b">>
    /\ "description" \in DOMAIN ctl_yielded[updated_with].control
    /\ file.doc.satisfies[1].narrative[2].text \in UpdateTexts
    /\ file.doc.satisfies[1].narrative[1].text = OldText

(***************************************************************************)
(* Properties of update_control                                            *)
(***************************************************************************)
\* the spaces before a line break go; line breaks and the rest stay
RECURSIVE DropSpacesBeforeBreaks(_)
DropSpacesBeforeBreaks(s) ==
    IF s = << >> THEN << >>
    ELSE IF Head(s) # " " THEN << Head(s) >> \o DropSpacesBeforeBreaks(Tail(s))
    ELSE LET n == CHOOSE m \in 1..Len(s) :
                     /\ \A k \in 1..m : s[k] = " "
                     /\ m = Len(s) \/ s[m + 1] # " "
         IN  IF n < Len(s) /\ s[n + 1] = "\n"
             THEN DropSpacesBeforeBreaks(SubSeq(s, n + 1, Len(s)))
             ELSE SubSeq(s, 1, n) \o DropSpacesBeforeBreaks(SubSeq(s, n + 1, Len(s)))

\* C16: the narrative an update writes is the submitted text with leading
\* and trailing whitespace trimmed and the whitespace before each internal
\* line break removed, line breaks and all other characters kept; a blank
\* text is written as an absent (null) field.
C16_NormalizedNarrative ==
    response = "OK" =>
        LET k == First(FormMatches(cfiles0[hfile].doc, form))
            expected == DropSpacesBeforeBreaks(Strip(form.narrative))
        IN  cfiles[hfile].doc.satisfies[k].narrative =
               IF expected = << >> THEN NoneStr ELSE expected

(***************************************************************************)
(* The shape of the sort keys                                              *)
(***************************************************************************)
\* a key of odd length whose 1st, 3rd, ... elements are strings (Python's
\* positions 0, 2, ...) and whose 2nd, 4th, ... elements are integers
WellShapedKey(key) ==
    /\ Len(key) % 2 = 1
    /\ \A k \in 1..Len(key) : key[k].kind = IF k % 2 = 1 THEN "str" ELSE "int"

Converse(o) == IF o = "lt" THEN "gt" ELSE IF o = "gt" THEN "lt" ELSE o

\* C21: every key make_control_number_sort_key returns has odd length, with
\* strings (possibly empty) at Python's even positions and integers at the
\* odd ones; so comparing the keys of two arguments never meets an integer
\* and a string at one position: the comparison raises no TypeError, orders
\* the two keys one way or the other, and finds them equal only if they are
\* the same key.
C21_KeyShape ==
    /\ \A k \in 1..Len(sort_keys) : WellShapedKey(sort_keys[k])
    /\ kpc = "done" =>
           /\ sort_order \in {"lt", "eq", "gt"}
           /\ KeyOrder(sort_keys[2], sort_keys[1]) = Converse(sort_order)
           /\ sort_order = "eq" <=> sort_keys[1] = sort_keys[2]

\* C21: the keys of "1A" and "A1" have been built and compared: the first
\* argument begins with digits and the second with a letter, and each key
\* begins with a string, the first with the empty one
C21_Witness ==
    /\ kpc = "done"
    /\ sort_in = << <<"1", "A">>, <<"A", "1">> >>
    /\ sort_keys[1][1] = [kind |-> "str", val |-> << >>]
    /\ sort_keys[1][2] = [kind |-> "int", val |-> 1]
    /\ sort_keys[2][1] = [kind |-> "str", val |-> <<"A">>]
    /\ sort_order = "lt"

====
